---- MODULE Spec2Model ----
(***************************************************************************)
(* Model of hyperglass/command/construct.py: the Construct class, which    *)
(* turns a validated query (target, VRF, transport) and a device into an   *)
(* SSH command list or a JSON payload.                                     *)
(*                                                                         *)
(* Python values are represented as follows:                               *)
(*   - str            : a TLA+ string                                      *)
(*   - None           : the string NoneVal                                 *)
(*   - list / str / None results : [type, items] records                   *)
(*   - an exception   : an outcome with status "raised", the exception     *)
(*                      class in exc and the raising expression in site    *)
(*   - str.format template : a sequence of literal and field parts         *)
(***************************************************************************)
EXTENDS Integers, Sequences, FiniteSets, TLC

VARIABLES self, last, ncalls, memo

vars == <<self, last, ncalls, memo>>

\* Number of builder calls made on one Construct object.
MaxCalls == 2

-----------------------------------------------------------------------------
(* Python values *)

NoneVal == "<None>"

\* Python truthiness of an optional string: None and "" are falsy.
Truthy(v) == v # NoneVal /\ v # ""

Absent == [type |-> "absent", items |-> <<>>]
PyList(items) == [type |-> "list", items |-> items]
PyStr(s) == [type |-> "str", items |-> <<s>>]
PyNone == [type |-> "None", items |-> <<>>]

Return(value, trace) ==
    [status |-> "returned", exc |-> "", site |-> "", value |-> value, trace |-> trace]

Raise(exc, site, trace) ==
    [status |-> "raised", exc |-> exc, site |-> site, value |-> Absent, trace |-> trace]

\* One entry of the access trace of a call: what was read, and with which key.
Ev(what, key) == <<what, key>>

-----------------------------------------------------------------------------
(* Inputs *)

Targets == {"192.0.2.1", "2001:db8::1", "not-an-ip"}
QueryVrfs == {"default", "CUSTOMER-A", "MGMT", "UNKNOWN", "", NoneVal}
Transports == {"scrape", "rest", "telnet"}
QueryTypes == {"ping", "traceroute", "bgp_route", "bgp_community", "bgp_aspath"}

\* ipaddress.ip_network(t).version; 0 stands for the ValueError it raises on
\* a string that is no IPv4 or IPv6 network.
ip_network_version(t) ==
    CASE t = "192.0.2.1" -> 4
      [] t = "2001:db8::1" -> 6
      [] OTHER -> 0

\* f"ipv{protocol}"
ipv(protocol) == "ipv" \o ToString(protocol)

-----------------------------------------------------------------------------
(* Configuration: devices (with their VRF tables) and the command catalog *)

AFI(afi_name, vrf_name, source_address) ==
    [afi_name |-> afi_name, vrf_name |-> vrf_name, source_address |-> source_address]

DeviceNames == {"router1"}

\* router1 runs the cisco_ios command set; its VRF MGMT has no IPv6.
Device(name) ==
    [commands |-> "cisco_ios",
     vrfs |-> [x \in {"default", "CUSTOMER-A", "MGMT"} |->
                IF x = "default"
                THEN [ipv4 |-> AFI("ipv4", "default", "203.0.113.1"),
                      ipv6 |-> AFI("ipv6", "default", "2001:db8:ffff::1")]
                ELSE IF x = "CUSTOMER-A"
                THEN [ipv4 |-> AFI("vpnv4", "cust-a", "10.0.0.1"),
                      ipv6 |-> AFI("vpnv6", "cust-a", "fd00::1")]
                ELSE "ipv4" :> AFI("vpnv4", "mgmt", "10.255.0.1")]]

L(s) == [kind |-> "lit", text |-> s]
F(n) == [kind |-> "field", text |-> n]

T_ping == <<L("ping "), F("target"), L(" source "), F("source")>>
T_ping_vrf == <<L("ping vrf "), F("vrf"), L(" "), F("target"), L(" source "), F("source")>>
T_trace == <<L("traceroute "), F("target"), L(" source "), F("source")>>
T_trace_vrf == <<L("traceroute vrf "), F("vrf"), L(" "), F("target"), L(" source "), F("source")>>
T_route == <<L("show bgp "), F("afi"), L(" unicast "), F("target")>>
T_route_vrf == <<L("show bgp "), F("afi"), L(" vrf "), F("vrf"), L(" "), F("target")>>
T_comm == <<L("show bgp "), F("afi"), L(" unicast community "), F("target")>>
T_aspath == <<L("show bgp "), F("afi"), L(" unicast regexp "), F("target")>>
T_jping == <<L("ping inet "), F("target"), L(" source "), F("source")>>
T_jtrace == <<L("traceroute inet "), F("target"), L(" source "), F("source")>>

CmdKeys == {"ipv4_default", "ipv6_default", "ipv4_vrf", "ipv6_vrf", "ipv4", "ipv6"}

CiscoKind(vrf) ==
    [ping |-> IF vrf THEN T_ping_vrf ELSE T_ping,
     traceroute |-> IF vrf THEN T_trace_vrf ELSE T_trace,
     bgp_route |-> IF vrf THEN T_route_vrf ELSE T_route,
     bgp_community |-> T_comm,
     bgp_aspath |-> T_aspath]

\* hyperglass.configuration.commands: platform -> cmd_type -> query_type -> template.
\* cisco_ios has no ipv6_vrf.traceroute; juniper has ping and traceroute only.
commands ==
    [cisco_ios |->
        [k \in CmdKeys |->
            IF k = "ipv6_vrf"
            THEN [q \in QueryTypes \ {"traceroute"} |-> CiscoKind(TRUE)[q]]
            ELSE CiscoKind(k = "ipv4_vrf")],
     juniper |->
        [k \in CmdKeys \ {"ipv4", "ipv6"} |-> [ping |-> T_jping, traceroute |-> T_jtrace]]]

-----------------------------------------------------------------------------
(* Library functions *)

RECURSIVE render(_, _)
render(template, kwargs) ==
    IF template = <<>> THEN ""
    ELSE LET part == Head(template)
         IN (IF part.kind = "lit" THEN part.text ELSE kwargs[part.text])
            \o render(Tail(template), kwargs)

\* str.format(**kwargs): every replacement field is looked up in kwargs, and a
\* field that is no keyword raises KeyError.
format(template, kwargs) ==
    LET fields == {template[i].text : i \in {j \in DOMAIN template : template[j].kind = "field"}}
    IN IF fields \subseteq DOMAIN kwargs
       THEN [ok |-> TRUE, value |-> render(template, kwargs)]
       ELSE [ok |-> FALSE, value |-> ""]

RECURSIVE json_items(_)
json_items(pairs) ==
    IF pairs = <<>> THEN ""
    ELSE "\"" \o Head(pairs)[1] \o "\": \"" \o Head(pairs)[2] \o "\""
         \o (IF Tail(pairs) = <<>> THEN "" ELSE ", " \o json_items(Tail(pairs)))

\* json.dumps of a dict of strings, keys in insertion order, default separators.
json_dumps(pairs) == "{" \o json_items(pairs) \o "}"

-----------------------------------------------------------------------------
(* class Construct *)

NoTemplate == [ok |-> FALSE, template |-> <<>>]

\* A plausible bug: a missing template falls back to the platform's
\* global-table entry of the same IP version instead of failing.
device_commands_fallback(nos, afi, query_type) ==
    LET dflt == IF afi = "ipv6_vrf" THEN "ipv6_default" ELSE "ipv4_default"
        key == IF nos \in DOMAIN commands /\ afi \in DOMAIN commands[nos]
                  /\ query_type \in DOMAIN commands[nos][afi]
               THEN afi ELSE dflt
    IN IF nos \notin DOMAIN commands THEN NoTemplate
       ELSE IF key \notin DOMAIN commands[nos] THEN NoTemplate
       ELSE IF query_type \notin DOMAIN commands[nos][key] THEN NoTemplate
       ELSE [ok |-> TRUE, template |-> commands[nos][key][query_type]]

\* operator.attrgetter(f"{nos}.{afi}.{query_type}")(commands): each step of
\* the path is a getattr, and a missing attribute raises AttributeError
\* (ok = FALSE).
device_commands(nos, afi, query_type) ==
    IF nos \notin DOMAIN commands THEN NoTemplate
    ELSE IF afi \notin DOMAIN commands[nos] THEN NoTemplate
    ELSE IF query_type \notin DOMAIN commands[nos][afi] THEN NoTemplate
    ELSE [ok |-> TRUE, template |-> commands[nos][afi][query_type]]

\* f"{nos}.{afi}.{query_type}"
cmd_path(nos, afi, query_type) == nos \o "." \o afi \o "." \o query_type

\* A plausible bug: the VRF is only compared with "default", so an empty or
\* unset VRF selects the VRF commands.
get_cmd_type_no_truth_test(query_target, query_vrf) ==
    LET protocol == ip_network_version(query_target)
    IN IF protocol = 0 THEN Raise("ValueError", "ip_network", <<Ev("ip_network", query_target)>>)
       ELSE Return(PyStr(IF query_vrf # "default"
                         THEN ipv(protocol) \o "_vrf"
                         ELSE ipv(protocol) \o "_default"),
                   <<Ev("ip_network", query_target)>>)

\* A plausible bug: an unparseable target is swallowed and treated as IPv4.
get_cmd_type_lenient(query_target, query_vrf) ==
    LET protocol == IF ip_network_version(query_target) = 0 THEN 4
                    ELSE ip_network_version(query_target)
    IN Return(PyStr(IF Truthy(query_vrf) /\ query_vrf # "default"
                    THEN ipv(protocol) \o "_vrf"
                    ELSE ipv(protocol) \o "_default"),
              <<Ev("ip_network", query_target)>>)

get_cmd_type(query_target, query_vrf) ==
    LET protocol == ip_network_version(query_target)
    IN IF protocol = 0 THEN Raise("ValueError", "ip_network", <<Ev("ip_network", query_target)>>)
       ELSE Return(PyStr(IF Truthy(query_vrf) /\ query_vrf # "default"
                         THEN ipv(protocol) \o "_vrf"
                         ELSE ipv(protocol) \o "_default"),
                   <<Ev("ip_network", query_target)>>)

NoObject ==
    [exists |-> FALSE, device |-> "", query_target |-> "", query_vrf |-> "",
     transport |-> "", cmd_type |-> ""]

\* Construct.__init__: the object, or the exception get_cmd_type raised.
new_Construct(device, query_data, transport) ==
    LET r == get_cmd_type(query_data.query_target, query_data.query_vrf)
    IN IF r.status = "raised"
       THEN [obj |-> NoObject, outcome |-> r]
       ELSE [obj |-> [exists |-> TRUE, device |-> device,
                      query_target |-> query_data.query_target,
                      query_vrf |-> query_data.query_vrf,
                      transport |-> transport,
                      cmd_type |-> r.value.items[1]],
             outcome |-> Return(PyNone, r.trace)]

\* A plausible bug: the result list outlives the call (a shared list instead
\* of a fresh local), so it starts with what the previous call left in it.
query_shared == IF last.value.type = "list" THEN last.value.items ELSE <<>>

\* query = []
query_init == <<>>

\* The body shared, apart from the query_type literal, by ping, traceroute
\* and bgp_route.
build(obj, query_type) ==
    LET version == ip_network_version(obj.query_target)
        query_protocol == ipv(version)
        dev == Device(obj.device)
        t0 == <<Ev("ip_network", obj.query_target)>>
        t1 == Append(t0, Ev("device.vrfs", obj.query_vrf))
        t2 == Append(t1, Ev("vrf.afi", query_protocol))
        t3 == Append(t2, Ev("commands", cmd_path(dev.commands, obj.cmd_type, query_type)))
    IN IF version = 0 THEN Raise("ValueError", "ip_network", t0)
       ELSE IF obj.query_vrf = NoneVal THEN Raise("TypeError", "device.vrfs", t1)
       ELSE IF obj.query_vrf \notin DOMAIN dev.vrfs THEN Raise("AttributeError", "device.vrfs", t1)
       ELSE IF query_protocol \notin DOMAIN dev.vrfs[obj.query_vrf]
            THEN Raise("AttributeError", "vrf.afi", t2)
       ELSE LET afi == dev.vrfs[obj.query_vrf][query_protocol]
            IN IF obj.transport = "rest"
               THEN Return(PyList(Append(query_init,
                        json_dumps(<< <<"query_type", query_type>>,
                                      <<"afi", afi.afi_name>>,
                                      <<"vrf", afi.vrf_name>>,
                                      <<"source", afi.source_address>>,
                                      <<"target", obj.query_target>> >>))), t2)
               ELSE IF obj.transport = "scrape"
               THEN LET cmd == device_commands(dev.commands, obj.cmd_type, query_type)
                        fmt == format(cmd.template,
                                      [target |-> obj.query_target,
                                       source |-> afi.source_address,
                                       vrf |-> afi.vrf_name,
                                       afi |-> afi.afi_name])
                    IN IF ~cmd.ok THEN Raise("AttributeError", "commands", t3)
                       ELSE IF ~fmt.ok THEN Raise("KeyError", "format", t3)
                       ELSE Return(PyList(Append(query_init, fmt.value)), t3)
               ELSE Return(PyList(query_init), t2)

ping(obj) == build(obj, "ping")

traceroute(obj) == build(obj, "traceroute")

bgp_route(obj) == build(obj, "bgp_route")

\* The names an instance of Construct has: what __init__ assigns and what the
\* class defines. query_afi is not among them.
ConstructAttrs ==
    {"device", "query_data", "transport", "query_target", "query_vrf", "cmd_type",
     "get_src", "device_commands", "get_cmd_type",
     "ping", "traceroute", "bgp_route", "bgp_community", "bgp_aspath"}

\* bgp_community reads the VRF, then evaluates self.query_afi for the
\* getattr on it: AttributeError, whatever the request. The code after that
\* line is never reached.
bgp_community(obj) ==
    LET dev == Device(obj.device)
        t1 == <<Ev("device.vrfs", obj.query_vrf)>>
    IN IF obj.query_vrf = NoneVal THEN Raise("TypeError", "device.vrfs", t1)
       ELSE IF obj.query_vrf \notin DOMAIN dev.vrfs THEN Raise("AttributeError", "device.vrfs", t1)
       ELSE IF "query_afi" \notin ConstructAttrs
            THEN Raise("AttributeError", "self.query_afi", t1)
       ELSE build(obj, "bgp_community")

\* bgp_aspath calls self.query_afi(...) first: AttributeError, whatever the
\* request, before any read of the device. The code after that line is never
\* reached.
bgp_aspath(obj) ==
    IF "query_afi" \notin ConstructAttrs
    THEN Raise("AttributeError", "self.query_afi", <<>>)
    ELSE Return(PyNone, <<>>)

-----------------------------------------------------------------------------
(* The caller: constructs a Construct object and calls its builders.       *)
(* last holds the most recent operation, its request and its outcome; memo *)
(* holds one earlier builder call, for comparison with a later run of it.  *)

CallKey(device, query_target, query_vrf, transport, op) ==
    [device |-> device, query_target |-> query_target, query_vrf |-> query_vrf,
     transport |-> transport, op |-> op]

NoCall == CallKey("", "", "", "", "none")

Done(call, r) ==
    [op |-> call.op, call |-> call, status |-> r.status, exc |-> r.exc,
     site |-> r.site, value |-> r.value, trace |-> r.trace]

Outcome(l) ==
    [status |-> l.status, exc |-> l.exc, site |-> l.site, value |-> l.value,
     trace |-> l.trace]

NoOutcome == Raise("", "", <<>>)

Remember(call, r) ==
    \E keep \in BOOLEAN :
        memo' = IF keep
                THEN [memo EXCEPT !.fresh = FALSE]
                ELSE [set |-> TRUE, fresh |-> TRUE, call |-> call, outcome |-> Outcome(Done(call, r))]

Init ==
    /\ self = NoObject
    /\ last = Done(NoCall, [NoOutcome EXCEPT !.status = "none"])
    /\ ncalls = 0
    /\ memo = [set |-> FALSE, fresh |-> FALSE, call |-> NoCall, outcome |-> NoOutcome]

\* Construct(device, query_data, transport)
Construct(device, query_data, transport) ==
    LET r == new_Construct(device, query_data, transport)
        call == CallKey(device, query_data.query_target, query_data.query_vrf,
                        transport, "__init__")
    IN /\ self' = r.obj
       /\ last' = Done(call, r.outcome)
       /\ ncalls' = 0
       /\ memo' = [memo EXCEPT !.fresh = FALSE]

Call(op, r) ==
    LET call == CallKey(self.device, self.query_target, self.query_vrf,
                        self.transport, op)
    IN /\ self.exists
       /\ ncalls < MaxCalls
       /\ last' = Done(call, r)
       /\ ncalls' = ncalls + 1
       /\ Remember(call, r)
       /\ UNCHANGED self

Ping == Call("ping", ping(self))

Traceroute == Call("traceroute", traceroute(self))

BgpRoute == Call("bgp_route", bgp_route(self))

BgpCommunity == Call("bgp_community", bgp_community(self))

BgpAspath == Call("bgp_aspath", bgp_aspath(self))

Next ==
    \/ \E device \in DeviceNames, t \in Targets, v \in QueryVrfs, transport \in Transports :
          Construct(device, [query_target |-> t, query_vrf |-> v], transport)
    \/ Ping
    \/ Traceroute
    \/ BgpRoute
    \/ BgpCommunity
    \/ BgpAspath

Spec == Init /\ [][Next]_vars

-----------------------------------------------------------------------------
(* Vocabulary of the properties *)

IsBuilderCall == last.op \in QueryTypes

LastDevice == Device(last.call.device)

\* The address-family key of the request of the last operation.
LastProtocol ==
    IF last.call.query_target = "192.0.2.1" THEN "ipv4"
    ELSE IF last.call.query_target = "2001:db8::1" THEN "ipv6"
    ELSE "invalid"

VrfKnown == last.call.query_vrf \in DOMAIN LastDevice.vrfs

AfiKnown == VrfKnown /\ LastProtocol \in DOMAIN LastDevice.vrfs[last.call.query_vrf]

LastAfi == LastDevice.vrfs[last.call.query_vrf][LastProtocol]

HasTemplate(nos, key, query_type) ==
    /\ nos \in DOMAIN commands
    /\ key \in DOMAIN commands[nos]
    /\ query_type \in DOMAIN commands[nos][key]

LastKwargs ==
    [target |-> last.call.query_target, source |-> LastAfi.source_address,
     vrf |-> LastAfi.vrf_name, afi |-> LastAfi.afi_name]

\* The catalog key the request of the last operation resolves to.
LastCmdType ==
    LastProtocol
    \o (IF last.call.query_vrf \in {"default", "", NoneVal} THEN "_default" ELSE "_vrf")

LookedUp == {last.trace[i][2] : i \in {j \in DOMAIN last.trace : last.trace[j][1] = "commands"}}

-----------------------------------------------------------------------------
(* Properties *)

CmdTypes == {"ipv4_vrf", "ipv4_default", "ipv6_vrf", "ipv6_default"}

C2_ScrapeReturnsOneCommand ==
    LET nos == LastDevice.commands
        key == IF last.op = "bgp_aspath" THEN LastProtocol ELSE LastCmdType
    IN IsBuilderCall /\ last.call.transport = "scrape" /\ AfiKnown
          /\ HasTemplate(nos, key, last.op)
       => /\ last.status = "returned"
          /\ last.value.items = <<render(commands[nos][key][last.op], LastKwargs)>>

\* C3 (as claimed): every one of the five builders, under rest transport with
\* the VRF and address-family records present, returns one JSON object with
\* the keys query_type, afi, vrf, source, target, filled from the builder's
\* kind, the AFI record and the target.
C3_RestReturnsJson ==
    IsBuilderCall /\ last.call.transport = "rest" /\ AfiKnown
       => /\ last.status = "returned"
          /\ last.value.items =
                << "{\"query_type\": \"" \o last.op
                   \o "\", \"afi\": \"" \o LastAfi.afi_name
                   \o "\", \"vrf\": \"" \o LastAfi.vrf_name
                   \o "\", \"source\": \"" \o LastAfi.source_address
                   \o "\", \"target\": \"" \o last.call.query_target \o "\"}" >>

\* C4 (as claimed): a builder called with a transport that is neither
\* "scrape" nor "rest" fails; it never returns an artifact.
C4_OtherTransportFails ==
    IsBuilderCall /\ last.call.transport \notin {"scrape", "rest"}
       => last.status = "raised"

\* C5: under scrape transport a builder whose exact path (platform, cmd_type,
\* query_type) holds no template fails and returns no command; a command that
\* is returned is the formatted template of that exact path, and no other
\* path is looked up.
C5_MissingTemplateFails ==
    LET nos == LastDevice.commands
        has == HasTemplate(nos, LastCmdType, last.op)
    IN IsBuilderCall /\ last.call.transport = "scrape"
       => /\ ~has => last.status = "raised" /\ last.value = Absent
          /\ last.status = "returned"
                => /\ has
                   /\ last.value = PyList(<<render(commands[nos][LastCmdType][last.op],
                                                   LastKwargs)>>)
          /\ LookedUp \subseteq {cmd_path(nos, LastCmdType, last.op)}

C5_Witness ==
    /\ last.op = "traceroute"
    /\ last.call.transport = "scrape"
    /\ last.call.query_vrf = "CUSTOMER-A"
    /\ last.call.query_target = "2001:db8::1"
    /\ last.status = "raised"
    /\ last.site = "commands"
    /\ LookedUp = {"cisco_ios.ipv6_vrf.traceroute"}

\* C6 (as claimed): a builder called for a VRF the device does not have fails
\* at the VRF lookup (the unknown-VRF error), and performs no command
\* template lookup.
C6_UnknownVrfFailsAtVrfLookup ==
    IsBuilderCall /\ Truthy(last.call.query_vrf) /\ ~VrfKnown
       => /\ last.status = "raised"
          /\ last.site = "device.vrfs"
          /\ LookedUp = {}

\* C7: an unparseable target makes the construction of the Construct object
\* fail at the parse, the only access made; no object exists afterwards, and
\* no builder ever runs for such a target.
C7_InvalidTargetFailsAtConstruction ==
    /\ last.op = "__init__" /\ LastProtocol = "invalid"
          => /\ last.status = "raised"
             /\ last.exc = "ValueError"
             /\ last.site = "ip_network"
             /\ last.trace = <<Ev("ip_network", last.call.query_target)>>
             /\ ~self.exists
    /\ IsBuilderCall => LastProtocol # "invalid"
    /\ self.exists => self.query_target \in {"192.0.2.1", "2001:db8::1"}

C7_Witness ==
    /\ last.op = "__init__"
    /\ last.call.query_target = "not-an-ip"
    /\ last.status = "raised"
    /\ ~self.exists

C9_AspathUsesAfiLabel ==
    LET nos == LastDevice.commands
    IN last.op = "bgp_aspath" /\ last.call.transport = "scrape" /\ AfiKnown
          /\ HasTemplate(nos, LastProtocol, "bgp_aspath")
       => /\ last.status = "returned"
          /\ LookedUp = {cmd_path(nos, LastProtocol, "bgp_aspath")}

\* C10 (as claimed): where bgp_route succeeds, bgp_community on the same
\* object succeeds too and returns what bgp_route's body returns with
\* "bgp_community" as the query type.
C10_CommunityLikeRoute ==
    last.op = "bgp_community" /\ bgp_route(self).status = "returned"
       => /\ last.status = "returned"
          /\ last.value = build(self, "bgp_community").value

====
